---- MODULE Spec2Model ----
(***************************************************************************)
(* A model of the call-charge calculator: the dashboard CSV merge          *)
(* (src/src/csv_processing.py) and the monthly CDR request log            *)
(* (src/app.py).                                                           *)
(*                                                                         *)
(* Text whose structure the code reads (durations, identifiers that the    *)
(* CSV reader may take for numbers) is a sequence of one-character         *)
(* strings; text the code only stores and compares is a plain string.      *)
(***************************************************************************)
EXTENDS Integers, Sequences, FiniteSets, TLC

VARIABLES
    call_details,   \* the dict[str, CallDetail] the caller holds: None, or Some(<<[key, detail], ...>>) in insertion order
    output,         \* the rows save_merged_csv wrote, when it was the last thing done to the dict (None otherwise)
    form,           \* Calculator page: the values of the form's widgets
    uploaded_file,  \* Calculator page: the uploaded CSV, None or Some(its rows)
    config,         \* Calculator page: None, or Some(the Files object "Process File" built last)
    processing_log, \* the month's processing_logs_<month>.csv: its data lines
    stdout,         \* what the operations printed
    pc,             \* the last operation
    hist,           \* history: per key in first-seen order, the CallDetail first built for it and the last row's annotations
    hist_keys,      \* history: the keys of every row processed since the dict was created
    hist_defaulted, \* history: the keys of the processed rows that lacked a column
    call_duration,  \* the argument of round_up_duration_minutes / _seconds
    minutes,        \* None, or Some(what round_up_duration_minutes returned)
    seconds,        \* None, or Some(what round_up_duration_seconds returned)
    hist_parts,     \* history: the components call_duration was written from
    cdr_file,       \* the month's cdr_requests_<month>.csv: None, or Some(its data lines)
    request_id,     \* update_cdr_request_status: its request_id argument
    new_status,     \* update_cdr_request_status: its new_status argument
    returned,       \* update_cdr_request_status: None, or Some(what it returned)
    hist_requests   \* history: per add_cdr_request call, the Request ID issued and the new_status of the last update that asked for it and returned True ("Pending" before)

csvVars == <<call_details, output, hist, hist_keys, hist_defaulted>>
appVars == <<form, uploaded_file, config, processing_log>>
durVars == <<call_duration, minutes, seconds, hist_parts>>
cdrVars == <<cdr_file, request_id, new_status, returned, hist_requests>>
vars == <<csvVars, appVars, durVars, cdrVars, stdout, pc>>

\* Optional[T]: None, or Some(x).
None == <<>>

Some(x) == <<x>>

Value(opt) == opt[1]

(***************************************************************************)
(* Text                                                                    *)
(***************************************************************************)
DigitChars == <<"0", "1", "2", "3", "4", "5", "6", "7", "8", "9">>

IsDigit(c) == \E i \in 1..10 : DigitChars[i] = c

DigitValue(c) == (CHOOSE i \in 1..10 : DigitChars[i] = c) - 1

Contains(text, c) == \E i \in 1..Len(text) : text[i] = c

\* str.split(sep): the pieces between the separators, empty pieces included.
RECURSIVE Split(_, _)
Split(text, sep) ==
    IF text = <<>> THEN << <<>> >>
    ELSE LET rest == Split(Tail(text), sep)
         IN  IF Head(text) = sep THEN << <<>> >> \o rest
             ELSE << <<Head(text)>> \o Head(rest) >> \o Tail(rest)

\* str.strip() on the one blank of the alphabet.
RECURSIVE Strip(_)
Strip(text) ==
    IF text = <<>> THEN text
    ELSE IF Head(text) = " " THEN Strip(Tail(text))
    ELSE IF text[Len(text)] = " " THEN Strip(SubSeq(text, 1, Len(text) - 1))
    ELSE text

RECURSIVE DigitsValue(_)
DigitsValue(ds) ==
    IF ds = <<>> THEN 0
    ELSE 10 * DigitsValue(SubSeq(ds, 1, Len(ds) - 1)) + DigitValue(ds[Len(ds)])

\* int(text): blanks around it dropped, one optional sign, then digits only.
IntBody(text) ==
    LET t == Strip(text)
    IN  IF t # <<>> /\ Head(t) \in {"-", "+"} THEN Tail(t) ELSE t

IntParses(text) ==
    LET body == IntBody(text)
    IN  body # <<>> /\ \A i \in 1..Len(body) : IsDigit(body[i])

IntOf(text) ==
    LET t == Strip(text)
        v == DigitsValue(IF Head(t) \in {"-", "+"} THEN Tail(t) ELSE t)
    IN  IF Head(t) = "-" THEN 0 - v ELSE v

\* math.ceil(n / d) for d > 0.
Ceil(n, d) == 0 - ((0 - n) \div d)

(***************************************************************************)
(* src/src/csv_processing.py: the two duration conversions.  Each returns  *)
(* [ret, printed]: the value and the lines the except branch printed.      *)
(***************************************************************************)
\* `h, m, s = map(int, call_duration.split(":"))` raises unless there are
\* exactly three pieces and int() takes each.
UnpackHMS(text) ==
    LET pieces == Split(text, ":")
    IN  IF Len(pieces) = 3 /\ \A i \in 1..3 : IntParses(pieces[i])
        THEN [ok |-> TRUE, h |-> IntOf(pieces[1]), m |-> IntOf(pieces[2]), s |-> IntOf(pieces[3])]
        ELSE [ok |-> FALSE, h |-> 0, m |-> 0, s |-> 0]

ParseError(which, text) ==
    <<[line |-> "Error parsing call duration", which |-> which, text |-> text]>>

\* A variant that drops the partial minute (s // 60).
round_up_duration_minutes_floor(text) ==
    IF Contains(text, ":")
    THEN LET u == UnpackHMS(text)
         IN  IF u.ok THEN [ret |-> u.h * 60 + u.m + (u.s \div 60), printed |-> <<>>]
             ELSE [ret |-> 0, printed |-> ParseError("minutes", text)]
    ELSE IF IntParses(text)
         THEN [ret |-> IntOf(text) \div 60, printed |-> <<>>]
         ELSE [ret |-> 0, printed |-> ParseError("minutes", text)]

round_up_duration_minutes(text) ==
    IF Contains(text, ":")
    THEN LET u == UnpackHMS(text)
         IN  IF u.ok THEN [ret |-> u.h * 60 + u.m + Ceil(u.s, 60), printed |-> <<>>]
             ELSE [ret |-> 0, printed |-> ParseError("minutes", text)]
    ELSE IF IntParses(text)
         THEN [ret |-> Ceil(IntOf(text), 60), printed |-> <<>>]
         ELSE [ret |-> 0, printed |-> ParseError("minutes", text)]

\* A variant that reads two pieces as m:s instead of failing on them.
round_up_duration_seconds_lenient(text) ==
    LET pieces == Split(text, ":")
    IN  IF Len(pieces) = 2 /\ \A i \in 1..2 : IntParses(pieces[i])
        THEN [ret |-> IntOf(pieces[1]) * 60 + IntOf(pieces[2]), printed |-> <<>>]
        ELSE IF Contains(text, ":")
        THEN LET u == UnpackHMS(text)
             IN  IF u.ok THEN [ret |-> u.h * 3600 + u.m * 60 + u.s, printed |-> <<>>]
                 ELSE [ret |-> 0, printed |-> ParseError("seconds", text)]
        ELSE IF IntParses(text)
             THEN [ret |-> IntOf(text), printed |-> <<>>]
             ELSE [ret |-> 0, printed |-> ParseError("seconds", text)]

round_up_duration_seconds(text) ==
    IF Contains(text, ":")
    THEN LET u == UnpackHMS(text)
         IN  IF u.ok THEN [ret |-> u.h * 3600 + u.m * 60 + u.s, printed |-> <<>>]
             ELSE [ret |-> 0, printed |-> ParseError("seconds", text)]
    ELSE IF IntParses(text)
         THEN [ret |-> IntOf(text), printed |-> <<>>]
         ELSE [ret |-> 0, printed |-> ParseError("seconds", text)]

(***************************************************************************)
(* The duration texts the conversions are run on: one to MaxParts          *)
(* components joined by ":", each either a written integer or not a        *)
(* number.                                                                 *)
(***************************************************************************)
MaxParts == 4

\* A component as written: num says whether it is a written integer, val which.
DurationComponents ==
    { [text |-> <<"0">>, num |-> TRUE, val |-> 0],
      [text |-> <<"0", "0">>, num |-> TRUE, val |-> 0],
      [text |-> <<"1">>, num |-> TRUE, val |-> 1],
      [text |-> <<"0", "1">>, num |-> TRUE, val |-> 1],
      [text |-> <<"3", "0">>, num |-> TRUE, val |-> 30],
      [text |-> <<"5", "9">>, num |-> TRUE, val |-> 59],
      [text |-> <<"1", "2", "5">>, num |-> TRUE, val |-> 125],
      [text |-> <<" ", "2">>, num |-> TRUE, val |-> 2],
      [text |-> <<>>, num |-> FALSE, val |-> 0],
      [text |-> <<"a", "b", "c">>, num |-> FALSE, val |-> 0],
      [text |-> <<"1", ".", "5">>, num |-> FALSE, val |-> 0] }

RECURSIVE Join(_)
Join(parts) ==
    IF Len(parts) = 1 THEN parts[1].text
    ELSE parts[1].text \o <<":">> \o Join(Tail(parts))

PartLists(n) == [1..n -> DurationComponents]

InitDuration ==
    /\ \E n \in 1..MaxParts : hist_parts \in PartLists(n)
    /\ call_duration = Join(hist_parts)
    /\ minutes = None
    /\ seconds = None

RoundUpMinutes ==
    /\ minutes = None
    /\ minutes' = Some(round_up_duration_minutes(call_duration).ret)
    /\ stdout' = stdout \o round_up_duration_minutes(call_duration).printed
    /\ pc' = "round_up_duration_minutes"
    /\ UNCHANGED <<call_duration, seconds, hist_parts, csvVars, appVars, cdrVars>>

RoundUpSeconds ==
    /\ seconds = None
    /\ seconds' = Some(round_up_duration_seconds(call_duration).ret)
    /\ stdout' = stdout \o round_up_duration_seconds(call_duration).printed
    /\ pc' = "round_up_duration_seconds"
    /\ UNCHANGED <<call_duration, minutes, hist_parts, csvVars, appVars, cdrVars>>

IdleCsv ==
    /\ call_details = None
    /\ output = None
    /\ hist = <<>>
    /\ hist_keys = {}
    /\ hist_defaulted = {}

IdleApp ==
    /\ form = None
    /\ uploaded_file = None
    /\ config = None
    /\ processing_log = <<>>

IdleCdr ==
    /\ cdr_file = None
    /\ request_id = <<>>
    /\ new_status = <<>>
    /\ returned = None
    /\ hist_requests = <<>>

SpecDurationInit ==
    /\ InitDuration
    /\ IdleCsv
    /\ IdleApp
    /\ IdleCdr
    /\ stdout = <<>>
    /\ pc = "start"

SpecDurationNext == RoundUpMinutes \/ RoundUpSeconds

SpecDuration == SpecDurationInit /\ [][SpecDurationNext]_vars

\* The least k with 60 * k >= n: the number of minutes n seconds touch.
MinutesTouched(n) == CHOOSE k \in 0..n : 60 * k >= n /\ 60 * (k - 1) < n

WellFormedHMS ==
    /\ Len(hist_parts) = 3
    /\ \A i \in 1..3 : hist_parts[i].num
    /\ hist_parts[2].val < 60
    /\ hist_parts[3].val < 60

PlainSeconds == Len(hist_parts) = 1 /\ hist_parts[1].num

Malformed == Len(hist_parts) \notin {1, 3} \/ \E i \in 1..Len(hist_parts) : ~hist_parts[i].num

Diagnosed(which) ==
    \E i \in 1..Len(stdout) : stdout[i].which = which /\ stdout[i].text = call_duration

\* C5: for text h:m:s with integer components and 0 <= m, s < 60 the minutes
\* are h*60 + m + ceil(s/60) and the seconds h*3600 + m*60 + s; for text that
\* is an integer count n of seconds they are ceil(n/60) and n.
C5_DurationMatchesReference ==
    LET h == hist_parts[1].val
        m == hist_parts[2].val
        s == hist_parts[3].val
        n == hist_parts[1].val
    IN  /\ (WellFormedHMS /\ minutes # None) => Value(minutes) = h * 60 + m + MinutesTouched(s)
        /\ (WellFormedHMS /\ seconds # None) => Value(seconds) = h * 3600 + m * 60 + s
        /\ (PlainSeconds /\ minutes # None) => Value(minutes) = MinutesTouched(n)
        /\ (PlainSeconds /\ seconds # None) => Value(seconds) = n

\* 0:01:30 has been converted to 2 minutes and 90 seconds.
C5_Witness ==
    /\ call_duration = <<"0", ":", "0", "1", ":", "3", "0">>
    /\ WellFormedHMS
    /\ minutes = Some(2)
    /\ seconds = Some(90)

\* C6: a malformed duration (a component that is no integer, or a number of
\* components other than one or three) makes both conversions return 0 and
\* print a diagnostic naming the text; neither raises.
C6_MalformedGivesZero ==
    /\ (Malformed /\ minutes # None) => (Value(minutes) = 0 /\ Diagnosed("minutes"))
    /\ (Malformed /\ seconds # None) => (Value(seconds) = 0 /\ Diagnosed("seconds"))

\* The two-component text 30:59 has been through both conversions.
C6_Witness ==
    /\ call_duration = <<"3", "0", ":", "5", "9">>
    /\ Malformed
    /\ minutes = Some(0)
    /\ seconds = Some(0)
    /\ Len(stdout) = 2

(***************************************************************************)
(* Dashboard rows.  A row is a function from the columns the export has    *)
(* to their text as read_csv(...).astype(str) gives it: a cell that is     *)
(* there is never empty (an empty cell reads "nan").  The numbers and the  *)
(* duration are sequences of characters, the other cells plain strings.    *)
(***************************************************************************)
Columns ==
    { "Sequence ID", "User name", "Call from", "Call to", "Call type",
      "Dial begin time", "Call begin time", "Call end time", "Ringing time",
      "Call duration", "Call memo" }

CharColumns == {"Call from", "Call to", "Call duration"}

\* row.get(column, "")
RowGet(row, column) ==
    IF column \in DOMAIN row THEN row[column]
    ELSE IF column \in CharColumns THEN <<>> ELSE ""

MakeRow(seq, from, to, type, duration, user, memo) ==
    [c \in Columns |->
        CASE c = "Sequence ID" -> seq
          [] c = "User name" -> user
          [] c = "Call from" -> from
          [] c = "Call to" -> to
          [] c = "Call type" -> type
          [] c = "Dial begin time" -> "2025-01-01 10:00:00"
          [] c = "Call begin time" -> "2025-01-01 10:00:05"
          [] c = "Call end time" -> "2025-01-01 10:02:00"
          [] c = "Ringing time" -> "0:00:05"
          [] c = "Call duration" -> duration
          [] c = "Call memo" -> memo]

Without(row, column) == [c \in DOMAIN row \ {column} |-> row[c]]

Complete(row) == DOMAIN row = Columns

(***************************************************************************)
(* src.FileConfig.Files and src.CallDetail.CallDetail are not among the    *)
(* source files; what follows is their behaviour as the specification      *)
(* states it (RateResolver, RatingEngine, IdentityKey, DurationNormalizer).*)
(***************************************************************************)
\* RateResolver: the first tier whose number is set and equals, after
\* trimming, the number the call is from or the number it is to.
TierMatches(number, raw) ==
    /\ number # None
    /\ \/ Strip(raw.call_from) = Strip(Value(number))
       \/ Strip(raw.call_to) = Strip(Value(number))

resolve(raw, cfg) ==
    IF TierMatches(cfg.number1, raw)
    THEN [name |-> "number1", rate |-> cfg.number1_rate, rate_type |-> cfg.number1_rate_type,
          chargeable_call_types |-> cfg.number1_chargeable_call_types]
    ELSE IF TierMatches(cfg.number2, raw)
    THEN [name |-> "number2", rate |-> cfg.number2_rate, rate_type |-> cfg.number2_rate_type,
          chargeable_call_types |-> cfg.number2_chargeable_call_types]
    ELSE IF TierMatches(cfg.s2c, raw)
    THEN [name |-> "s2c", rate |-> cfg.s2c_rate, rate_type |-> cfg.s2c_rate_type,
          chargeable_call_types |-> cfg.s2c_chargeable_call_types]
    ELSE [name |-> "default", rate |-> cfg.rate, rate_type |-> cfg.rate_type,
          chargeable_call_types |-> cfg.chargeable_call_types]

\* DurationNormalizer: the same two measures as the conversions above.
normalize(text) ==
    [rounded_minutes |-> round_up_duration_minutes(text).ret,
     exact_seconds |-> round_up_duration_seconds(text).ret]

\* RatingEngine: the rated record of one raw row.
CallDetail(raw, cfg) ==
    LET tier == resolve(raw, cfg)
        d == normalize(raw.call_duration)
        chargeable == raw.call_type \in tier.chargeable_call_types
    IN  [client |-> raw.client, sequence_id |-> raw.sequence_id, user_name |-> raw.user_name,
         call_from |-> raw.call_from, call_to |-> raw.call_to, call_type |-> raw.call_type,
         dial_start_at |-> raw.dial_start_at, dial_answered_at |-> raw.dial_answered_at,
         dial_end_at |-> raw.dial_end_at, ringing_time |-> raw.ringing_time,
         call_duration |-> raw.call_duration, call_memo |-> raw.call_memo,
         carrier |-> raw.carrier,
         tier |-> tier.name, rate |-> tier.rate, rate_type |-> tier.rate_type,
         chargeable |-> chargeable,
         charge |-> IF ~chargeable THEN 0
                    ELSE IF tier.rate_type = "per_minute" THEN tier.rate * d.rounded_minutes
                    ELSE tier.rate * d.exact_seconds,
         rounded_minutes |-> d.rounded_minutes, exact_seconds |-> d.exact_seconds]

\* IdentityKey: the digest of the fields that identify the call event, taken
\* as free of collisions: the fields themselves.
hash_key(detail) ==
    <<detail.sequence_id, detail.call_from, detail.call_to, detail.call_type,
      detail.dial_start_at, detail.dial_end_at>>

\* CallDetail.to_dict(): the record's fields under the export's column names.
to_dict(detail) ==
    [c \in Columns \cup {"Client", "Carrier", "Tier", "Rate", "Rate type", "Chargeable", "Charge"} |->
        CASE c = "Sequence ID" -> detail.sequence_id
          [] c = "User name" -> detail.user_name
          [] c = "Call from" -> detail.call_from
          [] c = "Call to" -> detail.call_to
          [] c = "Call type" -> detail.call_type
          [] c = "Dial begin time" -> detail.dial_start_at
          [] c = "Call begin time" -> detail.dial_answered_at
          [] c = "Call end time" -> detail.dial_end_at
          [] c = "Ringing time" -> detail.ringing_time
          [] c = "Call duration" -> detail.call_duration
          [] c = "Call memo" -> detail.call_memo
          [] c = "Client" -> detail.client
          [] c = "Carrier" -> detail.carrier
          [] c = "Tier" -> detail.tier
          [] c = "Rate" -> detail.rate
          [] c = "Rate type" -> detail.rate_type
          [] c = "Chargeable" -> detail.chargeable
          [] c = "Charge" -> detail.charge]

(***************************************************************************)
(* src/src/csv_processing.py: process_dashboard_csv and save_merged_csv.   *)
(* A dict is the sequence of its items [key, detail] in insertion order.   *)
(***************************************************************************)
HasKey(items, key) == \E i \in 1..Len(items) : items[i].key = key

IndexOf(items, key) == CHOOSE i \in 1..Len(items) : items[i].key = key

\* Lines 29-44: the CallDetail built from one row.
NewCallDetail(cfg, row) ==
    CallDetail(
        [client |-> cfg.client,
         sequence_id |-> RowGet(row, "Sequence ID"),
         user_name |-> RowGet(row, "User name"),
         call_from |-> RowGet(row, "Call from"),
         call_to |-> RowGet(row, "Call to"),
         call_type |-> RowGet(row, "Call type"),
         dial_start_at |-> RowGet(row, "Dial begin time"),
         dial_answered_at |-> RowGet(row, "Call begin time"),
         dial_end_at |-> RowGet(row, "Call end time"),
         ringing_time |-> RowGet(row, "Ringing time"),
         call_duration |-> RowGet(row, "Call duration"),
         call_memo |-> RowGet(row, "Call memo"),
         carrier |-> cfg.carrier],
        cfg)

\* A variant of the loop body that replaces the stored record on a key it has.
LoopBody_replace(items, cfg, row) ==
    LET call_detail == NewCallDetail(cfg, row)
        key == hash_key(call_detail)
    IN  IF HasKey(items, key)
        THEN [items EXCEPT ![IndexOf(items, key)].detail = call_detail]
        ELSE Append(items, [key |-> key, detail |-> call_detail])

\* A variant of the loop body that never looks the key up.
LoopBody_append(items, cfg, row) ==
    LET call_detail == NewCallDetail(cfg, row)
    IN  Append(items, [key |-> hash_key(call_detail), detail |-> call_detail])

\* A variant of the loop body that keeps only the calls that are charged.
LoopBody_chargeable_only(items, cfg, row) ==
    LET call_detail == NewCallDetail(cfg, row)
        key == hash_key(call_detail)
    IN  IF ~call_detail.chargeable THEN items
        ELSE IF HasKey(items, key)
        THEN [items EXCEPT ![IndexOf(items, key)].detail.user_name = RowGet(row, "User name"),
                           ![IndexOf(items, key)].detail.call_memo = RowGet(row, "Call memo")]
        ELSE Append(items, [key |-> key, detail |-> call_detail])

\* Lines 28-53: one turn of the loop over the rows.
LoopBody(items, cfg, row) ==
    LET call_detail == NewCallDetail(cfg, row)
        key == hash_key(call_detail)
    IN  IF HasKey(items, key)
        THEN [items EXCEPT ![IndexOf(items, key)].detail.user_name = RowGet(row, "User name"),
                           ![IndexOf(items, key)].detail.call_memo = RowGet(row, "Call memo")]
        ELSE Append(items, [key |-> key, detail |-> call_detail])

RECURSIVE Loop(_, _, _)
Loop(items, cfg, rows) ==
    IF rows = <<>> THEN items
    ELSE Loop(LoopBody(items, cfg, Head(rows)), cfg, Tail(rows))

\* cfg.dashboard holds the rows read_csv finds in the file of that name.
process_dashboard_csv(cfg, cd) ==
    LET start == IF cd = None THEN <<>> ELSE Value(cd)
    IN  Some(Loop(start, cfg, cfg.dashboard))

\* The row of one record and what converting its duration printed.
OutputRow(detail) ==
    LET call_dict == to_dict(detail)
        mins == round_up_duration_minutes(call_dict["Call duration"])
        secs == round_up_duration_seconds(call_dict["Call duration"])
    IN  [row |-> call_dict @@ ("Round up duration (minutes)" :> mins.ret)
                           @@ ("Round up duration (seconds)" :> secs.ret),
         printed |-> mins.printed \o secs.printed]

\* A variant that leaves the records without a charge out of the file.
save_merged_csv_charged_only(items) ==
    LET kept == SelectSeq(items, LAMBDA it : it.detail.charge # 0)
    IN  [rows |-> [i \in 1..Len(kept) |-> OutputRow(kept[i].detail).row],
         printed |-> <<>>]

RECURSIVE Printed(_)
Printed(items) ==
    IF items = <<>> THEN <<>>
    ELSE OutputRow(Head(items).detail).printed \o Printed(Tail(items))

Info(line) == <<[line |-> line, which |-> "", text |-> <<>>]>>

\* [rows, printed]: the data rows of the file written, and what was printed.
save_merged_csv(items) ==
    [rows |-> [i \in 1..Len(items) |-> OutputRow(items[i].detail).row],
     printed |-> Info("- Saving merged CSV file") \o Printed(items)]

(***************************************************************************)
(* src/app.py: the Calculator page.                                        *)
(***************************************************************************)
CALL_TYPES ==
    { "outbound call", "predictive_dial", "incoming call", "play_sound",
      "read_dtmf", "answering machine" }

RATE_TYPES == {"per_minute", "per_second"}

\* A variant that passes the three number boxes on as they are, empty or not.
Files_keep_empty(fm, dashboard, s2c_types) ==
    [client |-> Strip(fm.client),
     dashboard |-> dashboard,
     carrier |-> "Indosat",
     number1 |-> Some(fm.number1),
     number1_rate |-> fm.number1_rate,
     number1_rate_type |-> fm.number1_rate_type,
     number1_chargeable_call_types |-> fm.number1_chargeable,
     number2 |-> Some(fm.number2),
     number2_rate |-> fm.number2_rate,
     number2_rate_type |-> fm.number2_rate_type,
     number2_chargeable_call_types |-> fm.number2_chargeable,
     rate |-> fm.rate,
     rate_type |-> fm.rate_type,
     s2c |-> Some(fm.s2c),
     s2c_rate |-> fm.s2c_rate,
     s2c_rate_type |-> fm.s2c_rate_type,
     s2c_chargeable_call_types |-> s2c_types,
     chargeable_call_types |-> fm.chargeable_call_types]

\* Lines 185-204: the Files object built from the form.  The call passes no
\* chargeable types for S2C: s2c_types is what Files takes when given none.
Files(fm, dashboard, s2c_types) ==
    [client |-> Strip(fm.client),
     dashboard |-> dashboard,
     carrier |-> "Indosat",
     number1 |-> IF fm.number1 # <<>> THEN Some(fm.number1) ELSE None,
     number1_rate |-> fm.number1_rate,
     number1_rate_type |-> fm.number1_rate_type,
     number1_chargeable_call_types |-> fm.number1_chargeable,
     number2 |-> IF fm.number2 # <<>> THEN Some(fm.number2) ELSE None,
     number2_rate |-> fm.number2_rate,
     number2_rate_type |-> fm.number2_rate_type,
     number2_chargeable_call_types |-> fm.number2_chargeable,
     rate |-> fm.rate,
     rate_type |-> fm.rate_type,
     s2c |-> IF fm.s2c # <<>> THEN Some(fm.s2c) ELSE None,
     s2c_rate |-> fm.s2c_rate,
     s2c_rate_type |-> fm.s2c_rate_type,
     s2c_chargeable_call_types |-> s2c_types,
     chargeable_call_types |-> fm.chargeable_call_types]

\* What Files may take for the S2C tier's chargeable call types.
S2CDefaults == {{}, CALL_TYPES}

(***************************************************************************)
(* Spec: process_dashboard_csv fed batch after batch into the dict the     *)
(* caller holds, and save_merged_csv on it.                                *)
(***************************************************************************)
MaxBatch == 2

Number62 == <<"6", "2">>
Number70 == <<"7", "0">>
Duration0130 == <<"0", ":", "0", "1", ":", "3", "0">>
Duration125 == <<"1", "2", "5">>

FormA ==
    [client |-> <<"a", "c", "m", "e">>,
     rate |-> 10, rate_type |-> "per_minute",
     chargeable_call_types |-> {"outbound call", "predictive_dial"},
     number1 |-> <<>>, number1_rate |-> 0, number1_rate_type |-> "per_minute",
     number1_chargeable |-> {},
     number2 |-> <<>>, number2_rate |-> 0, number2_rate_type |-> "per_minute",
     number2_chargeable |-> {},
     s2c |-> <<>>, s2c_rate |-> 0, s2c_rate_type |-> "per_minute"]

FormB ==
    [FormA EXCEPT !.rate = 3, !.rate_type = "per_second",
                  !.chargeable_call_types = {"incoming call"}]

MergeForms == {FormA, FormB}

MergeRow(seq, version) ==
    IF version = 1
    THEN MakeRow(seq, Number62, Number70, "outbound call", Duration0130, "u1", "m1")
    ELSE MakeRow(seq, Number62, Number70, "outbound call", Duration125, "u2", "m2")

MergeRows ==
    { MergeRow("1", 1), MergeRow("1", 2), MergeRow("2", 1),
      Without(MergeRow("1", 2), "Sequence ID"),
      Without(MergeRow("2", 1), "Call duration") }

Batches(rows, n) == UNION { [1..k -> rows] : k \in 0..n }

\* The frames read_csv can give: the rows of one file have the same columns.
Frames(rows, n) ==
    { b \in Batches(rows, n) : \A i \in 1..Len(b) : DOMAIN b[i] = DOMAIN b[1] }

\* The history of one row, given the record built from it: the first record
\* built for its key, and the annotations of the last row that had the key.
HistRow(h, row, detail) ==
    LET key == hash_key(detail)
    IN  IF \E i \in 1..Len(h) : h[i].key = key
        THEN LET i == CHOOSE j \in 1..Len(h) : h[j].key = key
             IN  [h EXCEPT ![i].user_name = RowGet(row, "User name"),
                           ![i].call_memo = RowGet(row, "Call memo")]
        ELSE Append(h, [key |-> key, first |-> detail,
                        user_name |-> RowGet(row, "User name"),
                        call_memo |-> RowGet(row, "Call memo")])

RECURSIVE HistRows(_, _, _)
HistRows(h, rows, details) ==
    IF rows = <<>> THEN h
    ELSE HistRows(HistRow(h, Head(rows), Head(details)), Tail(rows), Tail(details))

IdleDuration ==
    /\ call_duration = <<>>
    /\ minutes = None
    /\ seconds = None
    /\ hist_parts = <<>>

Init ==
    /\ IdleCsv
    /\ IdleApp
    /\ IdleDuration
    /\ IdleCdr
    /\ stdout = <<>>
    /\ pc = "start"

\* The records lines 29-44 build from the rows of a frame, one after another.
RECURSIVE Details(_, _)
Details(cfg, rows) ==
    IF rows = <<>> THEN <<>>
    ELSE <<NewCallDetail(cfg, Head(rows))>> \o Details(cfg, Tail(rows))

\* What a call is given: a configuration whose dashboard file holds a frame,
\* with the records its rows build.
MergeInputs ==
    { [cfg |-> Files(fm, rows, {}), details |-> Details(Files(fm, rows, {}), rows)] :
        fm \in MergeForms, rows \in Frames(MergeRows, MaxBatch) }

\* call_details = process_dashboard_csv(config, call_details)
ProcessDashboardCsv ==
    \E input \in MergeInputs :
        LET rows == input.cfg.dashboard
            keys == [i \in 1..Len(rows) |-> hash_key(input.details[i])]
        IN  /\ call_details' = process_dashboard_csv(input.cfg, call_details)
            /\ output' = None
            /\ stdout' = Info("- Reading dashboard file")
            /\ pc' = "process_dashboard_csv"
            /\ hist' = HistRows(hist, rows, input.details)
            /\ hist_keys' = hist_keys \cup { keys[i] : i \in 1..Len(rows) }
            /\ hist_defaulted' = hist_defaulted \cup
                   { keys[i] : i \in { j \in 1..Len(rows) : ~Complete(rows[j]) } }
            /\ UNCHANGED <<appVars, durVars, cdrVars>>

\* save_merged_csv(call_details, output_path)
SaveMergedCsv ==
    /\ call_details # None
    /\ output' = Some(save_merged_csv(Value(call_details)).rows)
    /\ stdout' = save_merged_csv(Value(call_details)).printed
    /\ pc' = "save_merged_csv"
    /\ UNCHANGED <<call_details, hist, hist_keys, hist_defaulted, appVars, durVars, cdrVars>>

Next == ProcessDashboardCsv \/ SaveMergedCsv

Spec == Init /\ [][Next]_vars

Items == Value(call_details)

Keys(items) == { items[i].key : i \in 1..Len(items) }

\* The fields a merge may write.
Annotations == {"user_name", "call_memo"}

SameBut(a, b, fields) == \A f \in DOMAIN a \ fields : a[f] = b[f]

\* C1: a stored record keeps every rated and computed field as it was built
\* when its key was first inserted, whatever batches and configurations
\* followed; its user_name and call_memo are those of the last row that had
\* its key.
C1_MergeKeepsRatedFields ==
    call_details # None =>
        /\ Len(Items) = Len(hist)
        /\ \A i \in 1..Len(hist) :
              LET stored == Items[IndexOf(Items, hist[i].key)].detail
              IN  /\ HasKey(Items, hist[i].key)
                  /\ SameBut(stored, hist[i].first, Annotations)
                  /\ stored.user_name = hist[i].user_name
                  /\ stored.call_memo = hist[i].call_memo

\* Call 1 was first rated at 10 per minute (charge 20, memo m1); a later row
\* for it, of another duration, left the charge and replaced the memo.
C1_Witness ==
    /\ call_details # None
    /\ \E i \in 1..Len(Items) :
          /\ Items[i].detail.sequence_id = "1"
          /\ Items[i].detail.charge = 20
          /\ Items[i].detail.call_duration = Duration0130
          /\ Items[i].detail.call_memo = "m2"
          /\ Items[i].detail.user_name = "u2"

MergeConfigs == { Files(fm, <<>>, {}) : fm \in MergeForms }

\* C2: whatever the dict holds, upserting a row and then the same row again
\* (under the same or another configuration) leaves the dict as the first
\* upsert left it: same size, same order, same fields.
C2_MergeIdempotent ==
    call_details # None =>
        \A row \in MergeRows : \A cfg1 \in MergeConfigs : \A cfg2 \in MergeConfigs :
            LET once == LoopBody(Items, cfg1, row)
            IN  LoopBody(once, cfg2, row) = once

\* A batch that held the same row twice has been merged into a dict of two calls.
C2_Witness ==
    /\ pc = "process_dashboard_csv"
    /\ Len(Items) = 2
    /\ \E row \in MergeRows :
          /\ hist[Len(hist)].first = NewCallDetail(Files(FormB, <<>>, {}), row)
          /\ Items = LoopBody(LoopBody(Items, Files(FormA, <<>>, {}), row), Files(FormA, <<>>, {}), row)

\* C3: the dict holds one record per distinct key among all the rows
\* processed so far: its keys are those keys, each once.
C3_OneRecordPerKey ==
    call_details # None =>
        /\ Keys(Items) = hist_keys
        /\ Len(Items) = Cardinality(hist_keys)
        /\ \A i \in 1..Len(Items) : Items[i].key = hash_key(Items[i].detail)

\* Three distinct calls are held, one of them merged into after the others came.
C3_Witness ==
    /\ call_details # None
    /\ Len(Items) = 3
    /\ Cardinality(hist_keys) = 3
    /\ Items[1].detail.call_memo # hist[1].first.call_memo

\* C4: the file written has one row per record of the dict, none left out,
\* in the order in which the keys were first seen; each row is the record's
\* fields with the two rounded durations.
C4_SerializationCompleteOrdered ==
    (pc = "save_merged_csv" /\ output # None) =>
        /\ Len(Value(output)) = Len(Items)
        /\ Len(Value(output)) = Len(hist)
        /\ \A i \in 1..Len(hist) :
              /\ Value(output)[i]["Sequence ID"] = hist[i].key[1]
              /\ Value(output)[i]["Charge"] = hist[i].first.charge
              /\ Value(output)[i]["Call memo"] = hist[i].call_memo
              /\ \A c \in DOMAIN to_dict(Items[i].detail) :
                    Value(output)[i][c] = to_dict(Items[i].detail)[c]

\* A file of two rows: the first-seen call, merged into later, still first,
\* and a record without a charge in it.
C4_Witness ==
    /\ pc = "save_merged_csv"
    /\ output # None
    /\ Len(Value(output)) = 2
    /\ Value(output)[1]["Call memo"] # hist[1].first.call_memo
    /\ \E i \in 1..2 : Value(output)[i]["Charge"] = 0
    /\ \E i \in 1..2 : Value(output)[i]["Charge"] # 0

\* C7: a row that lacks a column leaves nothing in the dict, so no
\* stored record carries the empty text row.get falls back on.
C7_RowLackingColumnSkipped ==
    call_details # None =>
        \A i \in 1..Len(Items) :
            /\ Items[i].detail.sequence_id # ""
            /\ Items[i].detail.call_duration # <<>>
            /\ Items[i].key \notin hist_defaulted

(***************************************************************************)
(* SpecApp: the Calculator page.  The form is filled in and a file is      *)
(* uploaded; "Process File" builds the Files object, processes the file    *)
(* into a new dict, writes the processed file and logs the run.            *)
(***************************************************************************)
MaxUpload == 2

MaxLog == 1

Number11 == <<"1", "1">>
Number88 == <<"8", "8">>
Padded62 == <<" ", "6", "2">>
Duration1000 == <<"0", ":", "1", "0", ":", "0", "0">>

AppForms ==
    { [client |-> <<"a", "c", "m", "e", " ">>,
       rate |-> 720, rate_type |-> "per_minute",
       chargeable_call_types |-> {"outbound call", "predictive_dial"},
       number1 |-> n1, number1_rate |-> 100, number1_rate_type |-> "per_second",
       number1_chargeable |-> {"incoming call"},
       number2 |-> n2, number2_rate |-> 200, number2_rate_type |-> "per_minute",
       number2_chargeable |-> {"outbound call"},
       s2c |-> s, s2c_rate |-> 300, s2c_rate_type |-> "per_second"]
      : n1 \in {<<>>, Number62}, n2 \in {<<>>, Number70}, s \in {<<>>, Number62, Number88} }

Endpoints ==
    { <<Number62, Number11>>, <<Number11, Number70>>, <<Number11, Padded62>>,
      <<Number62, Number70>>, <<Number11, Number11>> }

AppRow(from, to, type) == MakeRow("7", from, to, type, Duration1000, "u1", "m1")

AppRows ==
    { AppRow(e[1], e[2], "outbound call") : e \in Endpoints }
    \cup { AppRow(Number62, Number11, "incoming call"),
           AppRow(Number11, Number11, "incoming call"),
           AppRow(Number11, Number11, "fax"),
           Without(AppRow(Number11, Number11, "outbound call"), "Call to") }

InitApp ==
    /\ form \in AppForms
    /\ uploaded_file \in {None} \cup { Some(rows) : rows \in Frames(AppRows, MaxUpload) }
    /\ config = None
    /\ processing_log = <<>>

\* Lines 67-80: the line add_processing_log appends, less its Log ID, file
\* names and date.
LogEntry(client) == [tenant_id |-> client, status |-> "Processed"]

\* Lines 176-231: the "Process File" button.
ProcessFile ==
    /\ uploaded_file # None
    /\ Strip(form.client) # <<>>
    /\ Len(processing_log) < MaxLog
    /\ \E s2c_types \in S2CDefaults :
       \E cfg \in {Files(form, Value(uploaded_file), s2c_types)} :
       \E cd \in {process_dashboard_csv(cfg, None)} :
       \E saved \in {save_merged_csv(Value(cd))} :
          /\ config' = Some(cfg)
          /\ call_details' = cd
          /\ output' = Some(saved.rows)
          /\ stdout' = Info("- Reading dashboard file") \o saved.printed
          /\ processing_log' = Append(processing_log, LogEntry(Strip(form.client)))
          /\ pc' = "Process File"
          /\ UNCHANGED <<form, uploaded_file, hist, hist_keys, hist_defaulted, durVars, cdrVars>>

SpecAppInit ==
    /\ InitApp
    /\ call_details = None
    /\ output = None
    /\ hist = <<>>
    /\ hist_keys = {}
    /\ hist_defaulted = {}
    /\ IdleDuration
    /\ IdleCdr
    /\ stdout = <<>>
    /\ pc = "start"

SpecAppNext == ProcessFile

SpecApp == SpecAppInit /\ [][SpecAppNext]_vars

\* Whether the number typed into a box of the form is one the call is from or to.
Hit(box, detail) ==
    /\ box # <<>>
    /\ Strip(box) \in {Strip(detail.call_from), Strip(detail.call_to)}

Rated(detail, name, rate, rate_type) ==
    detail.tier = name /\ detail.rate = rate /\ detail.rate_type = rate_type

TierTypes(cfg, name) ==
    CASE name = "number1" -> cfg.number1_chargeable_call_types
      [] name = "number2" -> cfg.number2_chargeable_call_types
      [] name = "s2c" -> cfg.s2c_chargeable_call_types
      [] name = "default" -> cfg.chargeable_call_types

\* C9: a call whose type is not among the chargeable types of its tier is
\* held with charge 0 and chargeable false, and it is held: every uploaded
\* row has its record in the dict and its row in the file written.
C9_UnchargeableKeptAtZero ==
    pc = "Process File" =>
        /\ \A i \in 1..Len(Items) :
              LET d == Items[i].detail
              IN  d.call_type \notin TierTypes(Value(config), d.tier) =>
                      /\ d.charge = 0
                      /\ d.chargeable = FALSE
                      /\ Value(output)[i]["Charge"] = 0
                      /\ Value(output)[i]["Call type"] = d.call_type
        /\ \A j \in 1..Len(Value(uploaded_file)) :
              \E i \in 1..Len(Items) :
                  /\ Items[i].key = hash_key(NewCallDetail(Value(config), Value(uploaded_file)[j]))
                  /\ i <= Len(Value(output))
                  /\ Value(output)[i]["Call type"] = RowGet(Value(uploaded_file)[j], "Call type")
                  /\ Value(output)[i]["Call to"] = RowGet(Value(uploaded_file)[j], "Call to")

\* A ten-minute call of an unknown type at 720 a minute is in the file at
\* charge 0, beside a call that is charged.
C9_Witness ==
    /\ pc = "Process File"
    /\ Len(Value(output)) = 2
    /\ Value(output)[1]["Call type"] = "fax"
    /\ Value(output)[1]["Rate"] = 720
    /\ Value(output)[1]["Round up duration (minutes)"] = 10
    /\ Value(output)[1]["Charge"] = 0
    /\ Value(output)[2]["Charge"] = 7200

(***************************************************************************)
(* src/app.py: the month's CDR request log.  The file is its header (the   *)
(* column names) and its data lines, each the text of its cells from the   *)
(* left; an empty cell is the empty text.                                  *)
(***************************************************************************)
CdrColumns ==
    << "Request ID", "Tenant ID", "Email", "Date From", "Date To", "Reason",
       "Date Submitted", "Status" >>

Position(columns, c) == CHOOSE i \in 1..Len(columns) : columns[i] = c

HasColumn(columns, c) == \E i \in 1..Len(columns) : columns[i] = c

\* Lines 47-52: a new file gets the header and the line, a file that exists
\* the line alone.
append_row_to_csv(file, row) ==
    IF file # None
    THEN Some([Value(file) EXCEPT !.lines = Append(@, row)])
    ELSE Some([header |-> CdrColumns, lines |-> <<row>>])

\* The value read_csv gives a cell: text, an integer, a float or NaN.
StrValue(text) == [kind |-> "str", text |-> text, n |-> 0]
IntValue(n) == [kind |-> "int", text |-> <<>>, n |-> n]
FloatValue(n) == [kind |-> "float", text |-> <<>>, n |-> n]
Missing == [kind |-> "nan", text |-> <<>>, n |-> 0]

\* A cell read_csv takes for an integer: digits only.
IsIntegerCell(text) == text # <<>> /\ \A i \in 1..Len(text) : IsDigit(text[i])

RECURSIVE Digits(_)
Digits(n) == IF n < 10 THEN <<DigitChars[n + 1]>> ELSE Digits(n \div 10) \o <<DigitChars[(n % 10) + 1]>>

\* The cell of line `line` under the column at position p: a line shorter
\* than the header has no cell there.
Cell(line, p) == IF p <= Len(line) THEN line[p] ELSE <<>>

\* read_csv's type of a column: integers when every cell is one, floats when
\* every cell is an integer or empty (and one is empty), text otherwise.
ColumnKind(lines, p) ==
    LET cells == { Cell(lines[i], p) : i \in 1..Len(lines) }
    IN  IF \A c \in cells : IsIntegerCell(c) THEN "int"
        ELSE IF \A c \in cells : c = <<>> \/ IsIntegerCell(c) THEN "float"
        ELSE "str"

ReadCell(kind, text) ==
    IF text = <<>> THEN Missing
    ELSE IF kind = "int" THEN IntValue(DigitsValue(text))
    ELSE IF kind = "float" THEN FloatValue(DigitsValue(text))
    ELSE StrValue(text)

\* Lines 54-58: the records of the file, each a function from the header's
\* columns to values.
load_csv_as_records(file) ==
    IF file = None THEN <<>>
    ELSE LET f == Value(file)
         IN  [i \in 1..Len(f.lines) |->
                 [c \in { f.header[p] : p \in 1..Len(f.header) } |->
                     ReadCell(ColumnKind(f.lines, Position(f.header, c)),
                              Cell(f.lines[i], Position(f.header, c)))]]

\* str(value)
StrOf(v) ==
    CASE v.kind = "str" -> v.text
      [] v.kind = "int" -> Digits(v.n)
      [] v.kind = "float" -> Digits(v.n) \o <<".", "0">>
      [] v.kind = "nan" -> <<"n", "a", "n">>

\* The cell to_csv writes for a value.
WriteCell(v) == IF v.kind = "nan" THEN <<>> ELSE StrOf(v)

\* Lines 60-62: the file of the records; a column is every key of a record,
\* in the order the keys first appear, and a record without the key leaves
\* its cell empty.
write_records_to_csv(header, records) ==
    LET columns == IF \E i \in 1..Len(records) : "Date Updated" \in DOMAIN records[i]
                   THEN IF HasColumn(header, "Date Updated") THEN header
                        ELSE Append(header, "Date Updated")
                   ELSE header
    IN  Some([header |-> columns,
              lines |-> [i \in 1..Len(records) |->
                            [p \in 1..Len(columns) |->
                                IF columns[p] \in DOMAIN records[i]
                                THEN WriteCell(records[i][columns[p]])
                                ELSE <<>>]]])

TextPending == <<"P", "e", "n", "d", "i", "n", "g">>
TextInProgress == <<"I", "n", " ", "P", "r", "o", "g", "r", "e", "s", "s">>
TextCompleted == <<"C", "o", "m", "p", "l", "e", "t", "e", "d">>
TextToday == <<"2", "0", "2", "5", "-", "0", "1", "-", "0", "1">>
TextNow == TextToday \o <<" ", "1", "0", ":", "0", "0", ":", "0", "0">>
TextEmail == <<"a", "@", "b">>

\* Lines 88-102: the line of a new request.
Entry(id, tenant_id, email, date_from, date_to, reason, now) ==
    <<id, tenant_id, email, date_from, date_to, reason, now, TextPending>>

add_cdr_request(file, id, tenant_id, email, date_from, date_to, reason, now) ==
    append_row_to_csv(file, Entry(id, tenant_id, email, date_from, date_to, reason, now))

\* Lines 113-117: the record after the loop's turn on it.
Updated(r, rid, status, now) ==
    IF StrOf(r["Request ID"]) = rid
    THEN [c \in DOMAIN r \cup {"Date Updated"} |->
             IF c = "Status" THEN StrValue(status)
             ELSE IF c = "Date Updated" THEN StrValue(now)
             ELSE r[c]]
    ELSE r

\* Lines 107-120: [ret, file]: what is returned and the file afterwards.
update_cdr_request_status(file, rid, status, now) ==
    IF file = None THEN [ret |-> FALSE, file |-> file]
    ELSE LET records == load_csv_as_records(file)
             updated == \E i \in 1..Len(records) : StrOf(records[i]["Request ID"]) = rid
         IN  IF updated
             THEN [ret |-> TRUE,
                   file |-> write_records_to_csv(Value(file).header,
                                [i \in 1..Len(records) |-> Updated(records[i], rid, status, now)])]
             ELSE [ret |-> FALSE, file |-> file]

(***************************************************************************)
(* SpecCdr: requests are submitted on the Request CDR page and their       *)
(* status is set from the Admin Dashboard.                                 *)
(***************************************************************************)
MaxRequests == 2

\* The first eight digits of a uuid4, cut to two: digits with and without a
\* leading zero, and one with a letter.
RequestIds == { <<"0", "1">>, <<"1", "0">>, <<"a", "1">> }

\* The ids asked for: the ids issued, and an id as the admin table shows it.
AskedIds == RequestIds \cup { <<"1">> }

TenantIds == { <<"a", "c", "m", "e">>, <<"0", "7">> }

NewStatuses == { TextInProgress, TextCompleted }

\* Line 91: the time of the n-th submission; the clock moves on between two.
SubmittedAt(n) == TextToday \o <<" ", "0", "9", ":", "0", "0", ":", "0">> \o Digits(n)

\* Lines 253-267: "Submit Request" on the Request CDR page.
AddCdrRequest ==
    /\ IF cdr_file = None THEN TRUE ELSE Len(Value(cdr_file).lines) < MaxRequests
    /\ \E id \in RequestIds, tenant_id \in TenantIds :
          /\ cdr_file' = add_cdr_request(cdr_file, id, tenant_id, TextEmail, TextToday,
                                         TextToday, <<>>, SubmittedAt(Len(hist_requests) + 1))
          /\ hist_requests' = Append(hist_requests, [request_id |-> id, status |-> TextPending])
    /\ pc' = "add_cdr_request"
    /\ stdout' = <<>>
    /\ UNCHANGED <<request_id, new_status, returned, csvVars, appVars, durVars>>

\* update_cdr_request_status(month_key, request_id, new_status)
UpdateCdrRequestStatus ==
    /\ \E rid \in AskedIds, status \in NewStatuses :
       \E result \in {update_cdr_request_status(cdr_file, rid, status, TextNow)} :
          /\ request_id' = rid
          /\ new_status' = status
          /\ returned' = Some(result.ret)
          /\ cdr_file' = result.file
          /\ hist_requests' =
                [i \in 1..Len(hist_requests) |->
                    IF result.ret /\ hist_requests[i].request_id = rid
                    THEN [hist_requests[i] EXCEPT !.status = status]
                    ELSE hist_requests[i]]
    /\ pc' = "update_cdr_request_status"
    /\ stdout' = <<>>
    /\ UNCHANGED <<csvVars, appVars, durVars>>

SpecCdrInit ==
    /\ IdleCsv
    /\ IdleApp
    /\ IdleDuration
    /\ IdleCdr
    /\ stdout = <<>>
    /\ pc = "start"

SpecCdrNext == AddCdrRequest \/ UpdateCdrRequestStatus

SpecCdr == SpecCdrInit /\ [][SpecCdrNext]_vars

\* The cell of data line i of a file under column c.
FileCell(file, i, c) ==
    IF HasColumn(Value(file).header, c)
    THEN Cell(Value(file).lines[i], Position(Value(file).header, c))
    ELSE <<>>

\* The data lines of a file whose Request ID is the text rid.
Matching(file, rid) ==
    IF file = None THEN {}
    ELSE { i \in 1..Len(Value(file).lines) : FileCell(file, i, "Request ID") = rid }

\* C10: update_cdr_request_status returns True exactly when the month's file
\* exists and holds a record whose Request ID is the one asked for; it then
\* sets Status and Date Updated on all and only those records, every other
\* field of every record staying as it was; otherwise it returns False and
\* the file is not written.
C10_UpdateByRequestId ==
    [][ pc' = "update_cdr_request_status" =>
          LET hit == Matching(cdr_file, request_id')
          IN  /\ returned' = Some(hit # {})
              /\ hit = {} => cdr_file' = cdr_file
              /\ hit # {} =>
                   /\ Len(Value(cdr_file').lines) = Len(Value(cdr_file).lines)
                   /\ \A i \in 1..Len(Value(cdr_file).lines) :
                        /\ \A p \in 1..Len(CdrColumns) :
                             CdrColumns[p] # "Status" =>
                                FileCell(cdr_file', i, CdrColumns[p]) = FileCell(cdr_file, i, CdrColumns[p])
                        /\ i \in hit =>
                             /\ FileCell(cdr_file', i, "Status") = new_status'
                             /\ FileCell(cdr_file', i, "Date Updated") # <<>>
                        /\ i \notin hit =>
                             /\ FileCell(cdr_file', i, "Status") = FileCell(cdr_file, i, "Status")
                             /\ FileCell(cdr_file', i, "Date Updated") = FileCell(cdr_file, i, "Date Updated")
      ]_vars

\* C11: under any sequence of add_cdr_request and update_cdr_request_status,
\* the log holds one record per add_cdr_request call, in the order of the
\* calls (an update adds, removes and moves none); a request's Status is
\* "Pending" until an update that asks for its Request ID returns True, and
\* from then on the new_status of the last such update.
C11_LogFollowsRequests ==
    /\ cdr_file = None => hist_requests = <<>>
    /\ cdr_file # None =>
          /\ Len(Value(cdr_file).lines) = Len(hist_requests)
          /\ \A i \in 1..Len(hist_requests) :
                /\ FileCell(cdr_file, i, "Date Submitted") = SubmittedAt(i)
                /\ FileCell(cdr_file, i, "Status") = hist_requests[i].status

====
